---- MODULE Spec2Model ----
(***************************************************************************)
(* The three batch pipelines of jarvis-research:                           *)
(*   "pt"  paper_tracker.py     (arXiv listing, papers_tracked.json)       *)
(*   "nm"  news_monitor.py      (HN, GitHub, conferences, blogs,           *)
(*                               news_tracked.json)                        *)
(*   "v2"  paper_tracker_v2.py  (arXiv API, reviewer, no state file)       *)
(* A behaviour is a sequence of runs of one script against the external    *)
(* sources (src) and the script's state file (file).  Identifiers are      *)
(* naturals (ascending string order = ascending number), publish dates     *)
(* are naturals, an entry's text is the set of words occurring in it.      *)
(***************************************************************************)
EXTENDS Integers, Sequences, FiniteSets, TLC

\* ------------------------------------------------------------- bounds
\* runs launched in one behaviour
MaxRuns == 2
\* entries of a long listing page (more than the display cap)
NumIds == 6
\* identifiers that occur on short pages
NumSmall == 2
\* entries of a short page
MaxShort == 2
\* publish dates of API entries
MaxDate == 2
\* sources that serve something else than an empty document in one run
MaxBusy == 2

\* ------------------------------------------------------------- constants
\* relevant[:5], stories[:5], repos[:5], updates[:5], posts[:5], papers[:5]
Cap == 5
\* conf_items[:3], blog_items[:3]
DisplayCap == 3
\* CONFIG['max_papers']
max_papers == 20

Progs == {"pt", "nm", "v2"}
Procs == {1, 2}

\* the keywords that occur in the modelled texts; every keyword list of the
\* three scripts holds both
KEYWORDS == {"agent", "llm"}
Texts == {{}, {"agent"}, {"agent", "llm"}}
RelevantTexts == {{"agent"}, {"agent", "llm"}}

\* sum(1 for kw in KEYWORDS if kw in text)
Score(text) == Cardinality({kw \in KEYWORDS : kw \in text})

\* ------------------------------------------------------------- sequences
Range(s) == {s[i] : i \in 1..Len(s)}

\* s[:n]
Take(s, n) == SubSeq(s, 1, IF Len(s) < n THEN Len(s) ELSE n)

Ids(s) == {s[i].id : i \in 1..Len(s)}

\* [x for x in s if x in keep]
RECURSIVE FilterSeq(_, _)
FilterSeq(s, keep) ==
  IF s = <<>> THEN <<>>
  ELSE IF Head(s) \in keep THEN <<Head(s)>> \o FilterSeq(Tail(s), keep)
       ELSE FilterSeq(Tail(s), keep)

\* tuple comparison of two keys of equal length
RECURSIVE KeyLess(_, _)
KeyLess(k1, k2) ==
  IF k1 = <<>> THEN FALSE
  ELSE IF Head(k1) # Head(k2) THEN Head(k1) < Head(k2)
       ELSE KeyLess(Tail(k1), Tail(k2))

\* list.sort(key=...) is stable: an element goes behind every element whose
\* key is not greater than its own.  ps is a sequence of <<key, element>>.
RECURSIVE InsertPair(_, _)
InsertPair(ps, x) ==
  IF ps = <<>> THEN <<x>>
  ELSE IF KeyLess(x[1], Head(ps)[1]) THEN <<x>> \o ps
       ELSE <<Head(ps)>> \o InsertPair(Tail(ps), x)

RECURSIVE SortPairs(_)
SortPairs(ps) ==
  IF ps = <<>> THEN <<>>
  ELSE InsertPair(SortPairs(SubSeq(ps, 1, Len(ps) - 1)), ps[Len(ps)])

\* ------------------------------------------------------------- inputs
\* an entry of a fetched document
Entry(i, t, d) == [id |-> i, text |-> t, pub |-> d]

\* sequences of at most n elements of S
RECURSIVE SeqsUpTo(_, _)
SeqsUpTo(S, n) ==
  IF n = 0 THEN {<<>>}
  ELSE LET shorter == SeqsUpTo(S, n - 1)
       IN shorter \cup {Append(s, x) : s \in {t \in shorter : Len(t) = n - 1}, x \in S}

\* a reachable source serving page pg, and an unreachable one
Up(pg) == [ok |-> TRUE, page |-> pg]
Down == [ok |-> FALSE, page |-> <<>>]

\* short listing pages: every order, text and repetition of the small ids
ListingEntries == {Entry(i, t, 0) : i \in 1..NumSmall, t \in Texts}
ShortListings == SeqsUpTo(ListingEntries, MaxShort)
\* long listing pages: NumIds relevant entries, entry k with its own text
LongListings ==
  {[i \in 1..NumIds |-> Entry(i, IF i = k THEN t1 ELSE t2, 0)] :
     k \in 0..NumIds, t1 \in RelevantTexts, t2 \in RelevantTexts}

Cats(g) == IF g = "nm" THEN {"hn", "gh", "conf", "blog"} ELSE {"arxiv"}

\* the documents a run fetches, in the order it fetches them
Sources(g) ==
  IF g = "pt" THEN <<"arxiv">>
  ELSE IF g = "nm" THEN <<"hn", "gh", "neurips", "iclr", "blog1", "blog2">>
  ELSE <<"cs.AI", "cs.LG", "cs.MA">>

Busy(w) == Cardinality({s \in DOMAIN w : w[s] # Up(<<>>)})

PTWorlds == {[arxiv |-> w] : w \in {Down} \cup {Up(pg) : pg \in ShortListings \cup LongListings}}

\* one story, repository or post per page, or a long blog index
NewsPages == SeqsUpTo({Entry(1, t, 0) : t \in {{}, {"agent"}}}, 1)
LongBlog == [i \in 1..NumIds |-> Entry(i, {"agent"}, 0)]
\* a conference page that announces something, and one that does not
ConfPages == {<<>>, <<Entry(0, {"deadline"}, 0)>>}
NMChoices ==
  [hn |-> {Down} \cup {Up(pg) : pg \in NewsPages},
   gh |-> {Down} \cup {Up(pg) : pg \in NewsPages},
   neurips |-> {Down} \cup {Up(pg) : pg \in ConfPages},
   iclr |-> {Down} \cup {Up(pg) : pg \in ConfPages},
   blog1 |-> {Down} \cup {Up(pg) : pg \in NewsPages \cup {LongBlog}},
   blog2 |-> {Down, Up(<<>>), Up(<<Entry(NumIds + 1, {"agent"}, 0)>>)}]
NMWorlds ==
  {w \in {[hn |-> a, gh |-> b, neurips |-> c, iclr |-> d, blog1 |-> e, blog2 |-> f] :
            a \in NMChoices.hn, b \in NMChoices.gh, c \in NMChoices.neurips,
            d \in NMChoices.iclr, e \in NMChoices.blog1, f \in NMChoices.blog2} :
     Busy(w) <= MaxBusy}

\* one entry per category query, or a long result for cs.AI; the entries of
\* cs.LG and cs.MA name one keyword
ApiPages(texts) ==
  SeqsUpTo({Entry(i, t, d) : i \in 1..NumSmall, t \in texts, d \in 1..MaxDate}, 1)
LongApi == {[i \in 1..NumIds |-> Entry(i, {"agent"}, d)] : d \in 1..MaxDate}
V2Choices(texts) == {Down} \cup {Up(pg) : pg \in ApiPages(texts)}
V2Worlds ==
  {w \in {[c \in {"cs.AI", "cs.LG", "cs.MA"} |->
             IF c = "cs.AI" THEN a ELSE IF c = "cs.LG" THEN b ELSE m] :
            a \in V2Choices(Texts) \cup {Up(pg) : pg \in LongApi},
            b \in V2Choices({{"agent"}}), m \in V2Choices({{"agent"}})} :
     Busy(w) <= MaxBusy}

Worlds(g) == IF g = "pt" THEN PTWorlds ELSE IF g = "nm" THEN NMWorlds ELSE V2Worlds

\* the smaller family served where deliveries are recorded: one source that
\* is unreachable, or serves one entry or a long page, the others empty
Plain(w) ==
  /\ Busy(w) <= 1
  /\ \A s \in DOMAIN w : Len(w[s].page) <= 1 \/ Len(w[s].page) >= NumIds
PTPlainWorlds == {w \in PTWorlds : Plain(w)}
NMPlainWorlds == {w \in NMWorlds : Plain(w)}
PlainWorlds(g) == IF g = "pt" THEN PTPlainWorlds ELSE NMPlainWorlds

\* ------------------------------------------------------------- state
VARIABLES
  prog,      \* the script this deployment runs
  file,      \* the script's state file
  src,       \* what each external source serves to the next fetch
  now,       \* datetime.now(), counted in runs
  last,      \* outcome of the previous run while the sources still serve what it fetched
  rerun,     \* the running run fetches what the previous, completed run fetched
  pc,        \* position of each run
  file0,     \* the state file when the run started
  config,    \* the loaded state: tracked (pt), config (nm)
  selected,  \* per category: relevant (pt), new_hn .. new_blog (nm), papers (v2)
  digest,    \* per category: the items rendered into the message
  review,    \* review_result (v2): "None" or the kind of object the reviewer returned
  sent,      \* result of send_to_telegram: "no" call, "ok", "fail"
  outcome,   \* how the run ended
  serial,    \* the scheduler launches a run only when no run is active
  delivered, \* per category: the identifiers ended runs have sent to the channel
  lost       \* per category: those of them whose run could not write the file

vars == <<prog, file, src, now, last, rerun, pc, file0, config, selected, digest, review, sent, outcome,
          serial, delivered, lost>>

Normal == {"Success", "DeliveredLocallyOnly", "NoOp"}

Absent == [st |-> "absent", keys |-> {}, data |-> [c \in Cats("nm") \cup Cats("pt") |-> {}], last_run |-> 0]
Corrupt == [Absent EXCEPT !.st = "corrupt"]
\* a parseable file holding the category keys ks, all empty
EmptyFile(ks) == [Absent EXCEPT !.st = "ok", !.keys = ks]

\* the identifiers the file holds for category c
Tracked(f, c) == IF f.st = "ok" /\ c \in f.keys THEN f.data[c] ELSE {}

NoItems == [c \in Cats("nm") \cup Cats("pt") |-> <<>>]
NoConfig == [keys |-> {}, data |-> Absent.data, last_run |-> 0]

\* the file as a run may find it: missing, not parseable, written by this
\* script, or written by a version that kept fewer categories
InitFiles(g) ==
  IF g = "pt" THEN {Absent, Corrupt, EmptyFile({}), EmptyFile({"arxiv"})}
  ELSE IF g = "nm" THEN {Absent, Corrupt, EmptyFile(Cats("nm")),
                         EmptyFile(Cats("nm") \ {"blog"}), EmptyFile(Cats("nm") \ {"hn"})}
  ELSE {Absent}

\* every source reachable and empty
Baseline(g) == [s \in Range(Sources(g)) |-> Up(<<>>)]

\* the state before the first run
Boot ==
  /\ prog \in Progs
  /\ file \in InitFiles(prog)
  /\ src = Baseline(prog)
  /\ now = 0
  /\ last = "none"
  /\ rerun = FALSE
  /\ pc = [p \in Procs |-> "idle"]
  /\ file0 = [p \in Procs |-> Absent]
  /\ config = [p \in Procs |-> NoConfig]
  /\ selected = [p \in Procs |-> NoItems]
  /\ digest = [p \in Procs |-> NoItems]
  /\ review = [p \in Procs |-> "None"]
  /\ sent = [p \in Procs |-> "no"]
  /\ outcome = [p \in Procs |-> "none"]

\* the deployment the scripts are written for: cron never starts a run while
\* another one is active.  No history of deliveries is kept.
Init ==
  /\ Boot
  /\ serial = TRUE
  /\ delivered = <<>>
  /\ lost = <<>>

\* a deployment of a script that keeps a state file, with or without that
\* guarantee (nothing in the script takes a lock); the deliveries of its
\* runs are recorded per category
InitOverlap ==
  /\ Boot
  /\ prog \in {"pt", "nm"}
  /\ serial \in BOOLEAN
  /\ delivered = [c \in Cats(prog) |-> {}]
  /\ lost = [c \in Cats(prog) |-> {}]

\* ------------------------------------------------------------- scheduling
\* The external scheduler serialises invocations: a run is launched on the
\* first slot, and only when no run is active.
Serial(p) == p = 1 /\ \A q \in Procs : pc[q] = "idle"

\* another run is active
Overlapping(p) == \E q \in Procs \ {p} : pc[q] # "idle"

\* Without that guarantee a run is launched whenever a slot is idle (the
\* first slot first); the script itself checks nothing.
Launch(p) ==
  IF serial THEN Serial(p) ELSE pc[p] = "idle" /\ (p = 1 \/ pc[1] # "idle")

\* the deliveries of the runs are recorded
Recording == DOMAIN delivered # {}

\* overlapping runs fetch the same documents
Start(p) ==
  /\ Launch(p)
  /\ now < MaxRuns
  /\ now' = now + 1
  /\ IF Overlapping(p)
     THEN src' = src /\ rerun' = FALSE
     ELSE IF last = "none"
     THEN /\ src' \in IF Recording THEN PlainWorlds(prog) ELSE Worlds(prog)
          /\ rerun' = FALSE
     ELSE src' = src /\ rerun' = (last \in Normal)
  /\ last' = "none"
  /\ pc' = [pc EXCEPT ![p] = IF prog = "v2" THEN "fetch" ELSE "load"]
  /\ file0' = [file0 EXCEPT ![p] = file]
  /\ UNCHANGED <<serial, delivered, lost, prog, file, config, selected, digest, review, sent, outcome>>

\* an uncaught exception ends the process with a traceback; why names the
\* call that raised
Crash(p, why) ==
  /\ pc' = [pc EXCEPT ![p] = "done"]
  /\ outcome' = [outcome EXCEPT ![p] = why]

\* the identifiers of category c that run p has sent to the channel
Sent(p, c) == IF sent[p] = "ok" THEN Ids(digest[p][c]) ELSE {}

\* the process has ended; its memory is gone.  Until the next run the
\* sources either keep serving the same documents or move on.
Exit(p) ==
  /\ pc[p] = "done"
  /\ IF Overlapping(p)
     THEN last' = "none" /\ src' = src
     ELSE \E keep \in BOOLEAN :
            /\ last' = IF keep THEN outcome[p] ELSE "none"
            /\ src' = IF keep THEN src ELSE Baseline(prog)
  /\ delivered' = [c \in DOMAIN delivered |-> delivered[c] \cup Sent(p, c)]
  /\ lost' = [c \in DOMAIN lost |->
               (lost[c] \cup IF outcome[p] = "Crash:save" THEN Sent(p, c) ELSE {})
                 \ Tracked(file, c)]
  /\ pc' = [pc EXCEPT ![p] = "idle"]
  /\ file0' = [file0 EXCEPT ![p] = Absent]
  /\ config' = [config EXCEPT ![p] = NoConfig]
  /\ selected' = [selected EXCEPT ![p] = NoItems]
  /\ digest' = [digest EXCEPT ![p] = NoItems]
  /\ review' = [review EXCEPT ![p] = "None"]
  /\ sent' = [sent EXCEPT ![p] = "no"]
  /\ outcome' = [outcome EXCEPT ![p] = "none"]
  /\ rerun' = FALSE
  /\ UNCHANGED <<serial, prog, file, now>>

\* ------------------------------------------------------------- paper_tracker.py
\* parse_papers: every entry becomes a paper with its score
parse_papers(html) ==
  [i \in 1..Len(html) |-> [id |-> html[i].id, score |-> Score(html[i].text), pub |-> 0]]

\* variant: the filter forgets the tracked set
PTRelevant_Retracked(papers, tracked) ==
  FilterSeq(papers, {x \in Range(papers) : x.score > 0})

\* variant: the filter forgets the score
PTRelevant_AnyScore(papers, tracked) ==
  FilterSeq(papers, {x \in Range(papers) : x.id \notin tracked})

\* relevant = [p for p in papers if p['score'] > 0 and p['id'] not in tracked]
PTRelevant(papers, tracked) ==
  FilterSeq(papers, {x \in Range(papers) : x.score > 0 /\ x.id \notin tracked})

\* relevant.sort(key=lambda x: (-x['score'], x['id']))
PTSort(s) ==
  LET ps == SortPairs([i \in 1..Len(s) |-> <<(<<0 - s[i].score, s[i].id>>), s[i]>>])
  IN [i \in 1..Len(s) |-> ps[i][2]]

\* variant: only the papers rendered into the message are tracked
PTMarked_ShownOnly(tracked, relevant) == tracked \cup Ids(Take(relevant, Cap))

\* for p in relevant: tracked.add(p['id'])
PTMarked(tracked, relevant) == tracked \cup Ids(relevant)

\* load_tracked
PTLoad(p) ==
  /\ prog = "pt" /\ pc[p] = "load"
  /\ IF file.st = "corrupt"
     THEN Crash(p, "Crash:load") /\ UNCHANGED config
     ELSE /\ config' = [config EXCEPT ![p] =
                 IF file.st = "absent" THEN [NoConfig EXCEPT !.keys = {"arxiv"}]
                 ELSE [keys |-> {"arxiv"},
                       data |-> [Absent.data EXCEPT !["arxiv"] =
                                   IF "arxiv" \in file.keys THEN file.data["arxiv"] ELSE {}],
                       last_run |-> file.last_run]]
          /\ pc' = [pc EXCEPT ![p] = "fetch"]
          /\ UNCHANGED outcome
  /\ UNCHANGED <<serial, delivered, lost, prog, file, src, now, last, rerun, file0, selected, digest, review, sent>>

\* fetch_arxiv_list, parse_papers, filter and sort
PTFetch(p) ==
  /\ prog = "pt" /\ pc[p] = "fetch"
  /\ IF ~src["arxiv"].ok
     THEN Crash(p, "Crash:fetch") /\ UNCHANGED selected
     ELSE /\ selected' = [selected EXCEPT ![p]["arxiv"] =
                 PTSort(PTRelevant(parse_papers(src["arxiv"].page), config[p].data["arxiv"]))]
          /\ pc' = [pc EXCEPT ![p] = "notify"]
          /\ UNCHANGED outcome
  /\ UNCHANGED <<serial, delivered, lost, prog, file, src, now, last, rerun, file0, config, digest, review, sent>>

\* variant: the state file is rewritten although nothing is new
PTNotify_AlwaysSave(p) ==
  /\ prog = "pt" /\ pc[p] = "notify"
  /\ IF selected[p]["arxiv"] = <<>>
     THEN /\ pc' = [pc EXCEPT ![p] = "done"]
          /\ outcome' = [outcome EXCEPT ![p] = "NoOp"]
          /\ file' = [st |-> "ok", keys |-> {"arxiv"}, data |-> config[p].data, last_run |-> now]
          /\ UNCHANGED <<digest, sent>>
     ELSE /\ digest' = [digest EXCEPT ![p]["arxiv"] = Take(selected[p]["arxiv"], Cap)]
          /\ \E r \in {"ok", "fail"} : sent' = [sent EXCEPT ![p] = r]
          /\ pc' = [pc EXCEPT ![p] = "save"]
          /\ UNCHANGED <<outcome, file>>
  /\ UNCHANGED <<serial, delivered, lost, prog, src, now, last, rerun, file0, config, selected, review>>

\* if relevant: build the message and send it; else nothing new
PTNotify(p) ==
  /\ prog = "pt" /\ pc[p] = "notify"
  /\ IF selected[p]["arxiv"] = <<>>
     THEN /\ pc' = [pc EXCEPT ![p] = "done"]
          /\ outcome' = [outcome EXCEPT ![p] = "NoOp"]
          /\ UNCHANGED <<digest, sent>>
     ELSE /\ digest' = [digest EXCEPT ![p]["arxiv"] = Take(selected[p]["arxiv"], Cap)]
          /\ \E r \in {"ok", "fail"} : sent' = [sent EXCEPT ![p] = r]
          /\ pc' = [pc EXCEPT ![p] = "save"]
          /\ UNCHANGED outcome
  /\ UNCHANGED <<serial, delivered, lost, prog, file, src, now, last, rerun, file0, config, selected, review>>

\* variant: papers are tracked only when the message was delivered
PTSave_OnlyIfDelivered(p) ==
  /\ prog = "pt" /\ pc[p] = "save"
  /\ \E writable \in BOOLEAN :
       IF sent[p] = "fail"
       THEN /\ pc' = [pc EXCEPT ![p] = "done"]
            /\ outcome' = [outcome EXCEPT ![p] = "DeliveredLocallyOnly"]
            /\ UNCHANGED file
       ELSE IF writable
       THEN /\ file' = [st |-> "ok", keys |-> {"arxiv"},
                        data |-> [Absent.data EXCEPT !["arxiv"] =
                                    config[p].data["arxiv"] \cup Ids(selected[p]["arxiv"])],
                        last_run |-> now]
            /\ pc' = [pc EXCEPT ![p] = "done"]
            /\ outcome' = [outcome EXCEPT ![p] = "Success"]
       ELSE Crash(p, "Crash:save") /\ UNCHANGED file
  /\ UNCHANGED <<serial, delivered, lost, prog, src, now, last, rerun, file0, config, selected, digest, review, sent>>

\* track the papers, save_tracked.  A write that fails is an open() that
\* fails: the exception leaves main and the file keeps its content.
PTSave(p) ==
  /\ prog = "pt" /\ pc[p] = "save"
  /\ \E writable \in BOOLEAN :
       IF writable
       THEN /\ file' = [st |-> "ok", keys |-> {"arxiv"},
                        data |-> [Absent.data EXCEPT !["arxiv"] =
                                    PTMarked(config[p].data["arxiv"], selected[p]["arxiv"])],
                        last_run |-> now]
            /\ pc' = [pc EXCEPT ![p] = "done"]
            /\ outcome' = [outcome EXCEPT ![p] =
                             IF sent[p] = "ok" THEN "Success" ELSE "DeliveredLocallyOnly"]
       ELSE Crash(p, "Crash:save") /\ UNCHANGED file
  /\ UNCHANGED <<serial, delivered, lost, prog, src, now, last, rerun, file0, config, selected, digest, review, sent>>

\* ------------------------------------------------------------- news_monitor.py
\* parse_hacker_news, parse_github_trending, parse_ai_blogs on one document:
\* the entries that mention a keyword, in page order
Mentions(doc) ==
  IF ~doc.ok THEN <<>>
  ELSE FilterSeq([i \in 1..Len(doc.page) |->
                    [id |-> doc.page[i].id, score |-> Score(doc.page[i].text), pub |-> 0]],
                 {[id |-> e.id, score |-> Score(e.text), pub |-> 0] :
                    e \in {x \in Range(doc.page) : \E kw \in KEYWORDS : kw \in x.text}})

parse_hacker_news(w) == Take(Mentions(w["hn"]), Cap)
parse_github_trending(w) == Take(Mentions(w["gh"]), Cap)
parse_ai_blogs(w) == Take(Mentions(w["blog1"]) \o Mentions(w["blog2"]), Cap)

\* the words parse_conferences looks for in a conference page
ConfTrigger == {"accepted", "deadline"}
\* the urls of the two conference pages, as identifiers
NeurIPSUrl == 1
ICLRUrl == 2
\* an update carries the fixed title and detail text, which name no keyword
ConfUpdate(url) == [id |-> url, score |-> Score({}), pub |-> 0]
Announces(doc) == doc.ok /\ \E e \in Range(doc.page) : e.text \cap ConfTrigger # {}
parse_conferences(w) ==
  Take((IF Announces(w["neurips"]) THEN <<ConfUpdate(NeurIPSUrl)>> ELSE <<>>)
       \o (IF Announces(w["iclr"]) THEN <<ConfUpdate(ICLRUrl)>> ELSE <<>>), Cap)

\* variant: the filter forgets the tracked urls
NMNew_Retracked(items, tracked) == items

\* [x for x in items if x['url'] not in tracked]
NMNew(items, tracked) == FilterSeq(items, {x \in Range(items) : x.id \notin tracked})

\* format_message: the items of each section that are rendered
format_message(new) ==
  [c \in DOMAIN new |->
     IF c \in {"conf", "blog"} THEN Take(new[c], DisplayCap) ELSE Take(new[c], Cap)]

\* load_config
NMLoad(p) ==
  /\ prog = "nm" /\ pc[p] = "load"
  /\ IF file.st = "corrupt"
     THEN Crash(p, "Crash:load") /\ UNCHANGED config
     ELSE /\ config' = [config EXCEPT ![p] =
                 IF file.st = "absent" THEN [NoConfig EXCEPT !.keys = Cats("nm")]
                 ELSE [keys |-> file.keys, data |-> file.data, last_run |-> file.last_run]]
          /\ pc' = [pc EXCEPT ![p] = "fetch"]
          /\ UNCHANGED outcome
  /\ UNCHANGED <<serial, delivered, lost, prog, file, src, now, last, rerun, file0, selected, digest, review, sent>>

\* the four parse_* calls and the filters for new items
NMFetch(p) ==
  /\ prog = "nm" /\ pc[p] = "fetch"
  /\ IF {"hn", "gh", "conf"} \subseteq config[p].keys
     THEN /\ selected' = [selected EXCEPT ![p] =
                 [NoItems EXCEPT
                    !["hn"] = NMNew(parse_hacker_news(src), config[p].data["hn"]),
                    !["gh"] = NMNew(parse_github_trending(src), config[p].data["gh"]),
                    !["conf"] = NMNew(parse_conferences(src), config[p].data["conf"]),
                    !["blog"] = NMNew(parse_ai_blogs(src),
                                      IF "blog" \in config[p].keys
                                      THEN config[p].data["blog"] ELSE {})]]
          /\ pc' = [pc EXCEPT ![p] = "notify"]
          /\ UNCHANGED outcome
     ELSE Crash(p, "Crash:config") /\ UNCHANGED selected
  /\ UNCHANGED <<serial, delivered, lost, prog, file, src, now, last, rerun, file0, config, digest, review, sent>>

\* if anything is new: format and send; else nothing new
NMNotify(p) ==
  /\ prog = "nm" /\ pc[p] = "notify"
  /\ IF \A c \in Cats("nm") : selected[p][c] = <<>>
     THEN /\ pc' = [pc EXCEPT ![p] = "done"]
          /\ outcome' = [outcome EXCEPT ![p] = "NoOp"]
          /\ UNCHANGED <<digest, sent>>
     ELSE /\ digest' = [digest EXCEPT ![p] = format_message(selected[p])]
          /\ \E r \in {"ok", "fail"} : sent' = [sent EXCEPT ![p] = r]
          /\ pc' = [pc EXCEPT ![p] = "save"]
          /\ UNCHANGED outcome
  /\ UNCHANGED <<serial, delivered, lost, prog, file, src, now, last, rerun, file0, config, selected, review>>

\* variant: only the categories with new items are written back
NMMarked_Overwrite(cfg, new, t) ==
  [keys |-> cfg.keys \cup (IF new["blog"] # <<>> THEN {"blog"} ELSE {}),
   data |-> [c \in DOMAIN cfg.data |-> IF new[c] # <<>> THEN cfg.data[c] \cup Ids(new[c]) ELSE {}],
   last_run |-> t]

\* the config after "Update tracked"
NMMarked(cfg, new, t) ==
  [keys |-> cfg.keys \cup (IF new["blog"] # <<>> THEN {"blog"} ELSE {}),
   data |-> [c \in DOMAIN cfg.data |-> cfg.data[c] \cup Ids(new[c])],
   last_run |-> t]

\* update tracked, save_config
NMSave(p) ==
  /\ prog = "nm" /\ pc[p] = "save"
  /\ \E writable \in BOOLEAN :
       IF writable
       THEN /\ file' = [st |-> "ok"] @@ NMMarked(config[p], selected[p], now)
            /\ pc' = [pc EXCEPT ![p] = "done"]
            /\ outcome' = [outcome EXCEPT ![p] =
                             IF sent[p] = "ok" THEN "Success" ELSE "DeliveredLocallyOnly"]
       ELSE Crash(p, "Crash:save") /\ UNCHANGED file
  /\ UNCHANGED <<serial, delivered, lost, prog, src, now, last, rerun, file0, config, selected, digest, review, sent>>

\* ------------------------------------------------------------- paper_tracker_v2.py
\* the entries of one category query that score above 0
V2Entries(doc) ==
  FilterSeq([i \in 1..Len(doc.page) |->
               [id |-> doc.page[i].id, score |-> Score(doc.page[i].text), pub |-> doc.page[i].pub]],
            {[id |-> e.id, score |-> Score(e.text), pub |-> e.pub] :
               e \in {x \in Range(doc.page) : Score(x.text) > 0}})

\* papers.sort(key=lambda x: (-x['raw_score'], x['published']))
V2Sort(s) ==
  LET ps == SortPairs([i \in 1..Len(s) |-> <<(<<0 - s[i].score, s[i].pub>>), s[i]>>])
  IN [i \in 1..Len(s) |-> ps[i][2]]

\* the first occurrence of every id
RECURSIVE Unique(_, _)
Unique(s, seen) ==
  IF s = <<>> THEN <<>>
  ELSE IF Head(s).id \in seen THEN Unique(Tail(s), seen)
       ELSE <<Head(s)>> \o Unique(Tail(s), seen \cup {Head(s).id})

\* fetch_arxiv_papers, given that no query timed out
fetch_arxiv_papers(w) ==
  Take(Unique(V2Sort(V2Entries(w["cs.AI"]) \o V2Entries(w["cs.LG"]) \o V2Entries(w["cs.MA"])),
              {}),
       max_papers)

\* What the reviewer process does: the command is missing, it exits non-zero,
\* it runs into the timeout, its output holds no braces, the braces hold no
\* JSON, or they hold an object: an empty one, one without reviews and
\* summary, one with a review that has no id, or a complete one.
ReviewerOutcomes ==
  {"unavailable", "nonzero", "timeout", "nomatch", "badjson",
   "empty", "nofields", "noid", "dict"}

\* review_with_claude_code: every failure inside the try yields None, a
\* parsed object is returned as it is
review_with_claude_code(o) ==
  IF o \in {"unavailable", "nonzero", "timeout", "nomatch", "badjson"}
  THEN "None"
  ELSE o

\* "if review_result": None and the empty object are false
Truthy(review_result) == review_result \notin {"None", "empty"}

\* format_briefing: the papers that are rendered
format_briefing(papers, review_result) ==
  IF Truthy(review_result) THEN papers ELSE Take(papers, Cap)

\* fetch_arxiv_papers; without papers the run returns
V2Fetch(p) ==
  /\ prog = "v2" /\ pc[p] = "fetch"
  /\ IF \E c \in DOMAIN src : ~src[c].ok
     THEN Crash(p, "Crash:fetch") /\ UNCHANGED selected
     ELSE /\ selected' = [selected EXCEPT ![p]["arxiv"] = fetch_arxiv_papers(src)]
          /\ IF fetch_arxiv_papers(src) = <<>>
             THEN /\ pc' = [pc EXCEPT ![p] = "done"]
                  /\ outcome' = [outcome EXCEPT ![p] = "NoOp"]
             ELSE /\ pc' = [pc EXCEPT ![p] = "review"]
                  /\ UNCHANGED outcome
  /\ UNCHANGED <<serial, delivered, lost, prog, file, src, now, last, rerun, file0, config, digest, review, sent>>

\* review_with_claude_code
V2Review(p) ==
  /\ prog = "v2" /\ pc[p] = "review"
  /\ \E o \in ReviewerOutcomes :
       review' = [review EXCEPT ![p] = review_with_claude_code(o)]
  /\ pc' = [pc EXCEPT ![p] = "notify"]
  /\ UNCHANGED <<serial, delivered, lost, prog, file, src, now, last, rerun, file0, config, selected, digest, sent, outcome>>

\* format_briefing and send_to_telegram
V2Notify(p) ==
  /\ prog = "v2" /\ pc[p] = "notify"
  /\ IF review[p] = "noid"
     THEN Crash(p, "Crash:format") /\ UNCHANGED <<digest, sent>>
     ELSE /\ digest' = [digest EXCEPT ![p]["arxiv"] =
                           format_briefing(selected[p]["arxiv"], review[p])]
          /\ \E r \in {"ok", "fail"} :
               /\ sent' = [sent EXCEPT ![p] = r]
               /\ outcome' = [outcome EXCEPT ![p] =
                                IF r = "ok" THEN "Success" ELSE "DeliveredLocallyOnly"]
          /\ pc' = [pc EXCEPT ![p] = "done"]
  /\ UNCHANGED <<serial, delivered, lost, prog, file, src, now, last, rerun, file0, config, selected, review>>

Next ==
  \E p \in Procs :
    \/ Start(p)
    \/ Exit(p)
    \/ PTLoad(p)
    \/ PTFetch(p)
    \/ PTNotify(p)
    \/ PTSave(p)
    \/ NMLoad(p)
    \/ NMFetch(p)
    \/ NMNotify(p)
    \/ NMSave(p)
    \/ V2Fetch(p)
    \/ V2Review(p)
    \/ V2Notify(p)

Spec == Init /\ [][Next]_vars

\* the runs of the two scripts that keep a state file
NextOverlap ==
  \E p \in Procs :
    \/ Start(p)
    \/ Exit(p)
    \/ PTLoad(p)
    \/ PTFetch(p)
    \/ PTNotify(p)
    \/ PTSave(p)
    \/ NMLoad(p)
    \/ NMFetch(p)
    \/ NMNotify(p)
    \/ NMSave(p)

\* the same runs under a scheduler that may start one while another is active
SpecOverlap == InitOverlap /\ [][NextOverlap]_vars

\* ------------------------------------------------------------- properties
AllCats == Cats("nm") \cup Cats("pt")

\* the run handed a digest to the notifier
Notified(p) == sent[p] # "no"

\* the identifiers of category c that the file holds now and did not hold when
\* run p started
NewlyTracked(p, c) == Tracked(file, c) \ Tracked(file0[p], c)

\* C1: no run renders into its digest of category C an identifier that the
\* state file held for C when the run started, i.e. one that an earlier,
\* completed run marked tracked, whatever text the item carries now.
C1_NoTrackedInDigest ==
  \A p \in Procs : \A c \in AllCats :
    Ids(digest[p][c]) \cap Tracked(file0[p], c) = {}

\* C1 witness: a run has built a digest while a source served a relevant
\* entry whose identifier was already tracked.
C1_Witness ==
  \E p \in Procs :
    /\ prog = "pt" /\ Notified(p)
    /\ \E e \in Range(src["arxiv"].page) :
         Score(e.text) > 0 /\ e.id \in Tracked(file0[p], "arxiv")

\* C2: a run that fetches exactly what the previous, normally completed run
\* fetched, with the state file untouched in between, ends NoOp without a
\* digest and without a call of the notifier.
C2_RerunIsNoOp ==
  \A p \in Procs :
    (rerun /\ pc[p] = "done") =>
      outcome[p] = "NoOp" /\ ~Notified(p) /\ digest[p] = NoItems

\* C3 as claimed: a run marks tracked only identifiers that are in the digest
\* it handed to the notifier.
C3_OnlyDelivered ==
  \A p \in Procs : \A c \in AllCats :
    pc[p] # "idle" => NewlyTracked(p, c) \subseteq Ids(digest[p][c])

\* C3 amended: a run marks identifiers tracked only after it handed a digest
\* to the notifier, and then it marks exactly its new candidates of the
\* category, those cut from the digest by a cap included.
C3_MarksEveryCandidate ==
  \A p \in Procs : \A c \in AllCats :
    (pc[p] # "idle" /\ NewlyTracked(p, c) # {}) =>
      Notified(p) /\ NewlyTracked(p, c) = Ids(selected[p][c])

\* C3 witness: a finished run has marked tracked an identifier that its
\* digest does not show.
C3_Witness ==
  \E p \in Procs : \E c \in AllCats :
    /\ pc[p] = "done"
    /\ Ids(selected[p][c]) \ Ids(digest[p][c]) # {}
    /\ Ids(selected[p][c]) \subseteq NewlyTracked(p, c)

RankKey(x) == <<0 - x.score, 0 - x.pub, x.id>>

\* C5: the items of a digest section are the first items of the candidates
\* in the claimed rank: they are in rank order, and no candidate left out
\* ranks before one that is shown.
C5_RankedPrefix ==
  \A p \in Procs : \A c \in AllCats :
    LET d == digest[p][c] IN
      /\ \A i, j \in 1..Len(d) : i < j => ~KeyLess(RankKey(d[j]), RankKey(d[i]))
      /\ \A x \in Range(selected[p][c]) \ Range(d) :
           \A y \in Range(d) : ~KeyLess(RankKey(x), RankKey(y))

\* C6: in paper_tracker and news_monitor a run that handed a digest to the
\* notifier goes on to save whatever the notifier answered; unless the write
\* itself fails, it then ends Success (delivered) or DeliveredLocallyOnly
\* (not delivered) with every selected identifier in the state file.
C6_DeliveryFailureStillPersists ==
  \A p \in Procs :
    (prog \in {"pt", "nm"} /\ Notified(p)) =>
      \/ pc[p] = "save"
      \/ pc[p] = "done" /\ outcome[p] = "Crash:save"
      \/ /\ pc[p] = "done"
         /\ outcome[p] = IF sent[p] = "ok" THEN "Success" ELSE "DeliveredLocallyOnly"
         /\ \A c \in AllCats : Ids(selected[p][c]) \subseteq Tracked(file, c)

\* C6 witness: a run whose delivery failed has ended DeliveredLocallyOnly
\* with its selection in the state file.
C6_Witness ==
  \E p \in Procs : \E c \in AllCats :
    /\ pc[p] = "done" /\ sent[p] = "fail" /\ outcome[p] = "DeliveredLocallyOnly"
    /\ selected[p][c] # <<>>
    /\ Ids(selected[p][c]) \subseteq NewlyTracked(p, c)

Selecting(p) == pc[p] \in {"notify", "review", "save"} \/ (pc[p] = "done" /\ outcome[p] \notin {"Crash:load", "Crash:config", "Crash:fetch"})

\* C8: a run that selects nothing in every category builds no digest, does
\* not call the notifier, leaves the state file (identifiers and last_run)
\* as it found it, and ends NoOp.
C8_NoOpLeavesNoTrace ==
  \A p \in Procs :
    (Selecting(p) /\ \A c \in AllCats : selected[p][c] = <<>>) =>
      /\ digest[p] = NoItems
      /\ ~Notified(p)
      /\ file = file0[p]
      /\ pc[p] = "done" => outcome[p] = "NoOp"
      /\ pc[p] \in {"notify", "done"}

\* C8 witness: a run has ended NoOp over a state file that an earlier run
\* had written.
C8_Witness ==
  \E p \in Procs :
    /\ pc[p] = "done" /\ outcome[p] = "NoOp"
    /\ file.last_run > 0
    /\ \E c \in AllCats : Tracked(file, c) # {}

\* C9: loading the state file never ends the run: not when the file is not
\* parseable, and not when it lacks a category.
C9_LoadNeverRaises ==
  \A p \in Procs : outcome[p] \notin {"Crash:load", "Crash:config"}

\* C10: no run ends because a fetch failed or timed out, or because the
\* state file could not be written.
C10_NoFatalFailure ==
  \A p \in Procs : outcome[p] \notin {"Crash:fetch", "Crash:save"}

\* C11: whatever the reviewer did, a v2 run that selected papers renders them
\* into a digest and hands it to the notifier without raising; without a
\* usable review the digest is the raw-score rendering (the first Cap papers).
C11_EnrichmentOptional ==
  \A p \in Procs :
    (prog = "v2" /\ pc[p] = "done" /\ selected[p]["arxiv"] # <<>>) =>
      /\ outcome[p] # "Crash:format"
      /\ Notified(p)
      /\ digest[p]["arxiv"] # <<>>
      /\ ~Truthy(review[p]) => digest[p]["arxiv"] = Take(selected[p]["arxiv"], Cap)

\* C12 (as stated, second half): under a scheduler that never lets two runs
\* overlap, no run sends an identifier that an earlier run has sent.
C12_NoRedelivery ==
  serial =>
    \A p \in Procs : \A c \in DOMAIN delivered :
      Sent(p, c) \cap delivered[c] = {}

\* C12: under a scheduler that never lets two runs overlap, a run renders an
\* identifier that an earlier run has sent only if that earlier run could not
\* write the state file after sending it (and no run has written it since).
C12_RedeliveryOnlyAfterLostWrite ==
  serial =>
    \A p \in Procs : \A c \in DOMAIN delivered :
      Notified(p) => (Ids(digest[p][c]) \cap delivered[c]) \subseteq lost[c]

\* C12 witness (first half): two runs overlap, both have loaded the state
\* file and neither has written it yet, and both have sent the same
\* identifier to the channel.
C12_Witness ==
  /\ ~serial
  /\ \A p \in Procs : pc[p] = "save"
  /\ \E c \in DOMAIN delivered : Sent(1, c) \cap Sent(2, c) # {}

====
